---- MODULE Spec2Model ----
(***************************************************************************)
(* turbomigrate: the top-level script of the CLI (src/unnamed/part_000,    *)
(* lines 132-456) as a state machine.  The script is straight-line code    *)
(* that suspends at the interactive prompts and at the two external        *)
(* commands; every section of the script is one action.                    *)
(*                                                                         *)
(* Conventions.  A JavaScript string that may be undefined is a string, the*)
(* value Undef standing for undefined.  An object or array that may be     *)
(* undefined is None (<<>>) or Some(v) (<<v>>).  Paths and file names are   *)
(* strings.                                                                *)
(***************************************************************************)
EXTENDS Naturals, Sequences, FiniteSets, TLC

VARIABLES
    \* command line and file system: the inputs of one run
    local, remote, dir,
    fsWrangler, fsDrizzle,      \* the candidate config files that exist
    wranglerFile, drizzleFile,  \* what parsing the selected file yields
    migrationsDir,              \* the directory join(workdir, out ?? "drizzle")
    \* the script's variables
    pc,
    resolvedWorkdir,
    foundConfigs, wranglerConfig,
    foundDrizzleConfig, drizzleConfig,
    environments, selectedEnvironment,
    databases, selectedDatabase,
    foundDrizzleMigrationsFolder, createNewMigration,
    sqlFilesWithStats, selectedMigration,
    \* what the run does to the outside
    parsedPaths,    \* the paths handed to the config parsers
    prompts,        \* the prompts invoked, with the user's answers
    commands,       \* the external commands invoked (execa), with their results
    warnings, stderr, exitCode,
    \* the orchestration state of the run
    state, cancelledFrom,
    \* parseJsonc: the text of a .jsonc file, the same text written as plain
    \* JSON, and what parseJsonc makes of the text
    content, plain, document

vars == << local, remote, dir, fsWrangler, fsDrizzle, wranglerFile,
           drizzleFile, migrationsDir, pc, resolvedWorkdir, foundConfigs,
           wranglerConfig, foundDrizzleConfig, drizzleConfig, environments,
           selectedEnvironment, databases, selectedDatabase,
           foundDrizzleMigrationsFolder, createNewMigration,
           sqlFilesWithStats, selectedMigration, prompts, commands,
           warnings, stderr, exitCode, state, cancelledFrom, parsedPaths,
           content, plain, document >>

inputs == << local, remote, dir, fsWrangler, fsDrizzle, wranglerFile,
             drizzleFile >>

jsoncVars == << content, plain, document >>

-----------------------------------------------------------------------------
(* Bounds of the model *)

MaxEnvs  == 2     \* environment keys in a deployment config
MaxDbs   == 2     \* bindings in one d1_databases list
MaxFiles == 3     \* entries in the migrations directory
MaxMtime == 2     \* distinct last-modified times

-----------------------------------------------------------------------------
(* Values *)

Undef   == "<undefined>"
None    == << >>
Some(v) == << v >>
Get(o)  == o[1]

\* JavaScript truthiness of a string-or-undefined
Falsy(v) == v = Undef \/ v = ""

\* a ?? b on strings
Coalesce(a, b) == IF a = Undef THEN b ELSE a

SeqsNoDup(S, n) ==
    UNION { { f \in [1..k -> S] : \A i, j \in 1..k : i # j => f[i] # f[j] }
            : k \in 0..n }

SeqsUpTo(S, n) == UNION { [1..k -> S] : k \in 0..n }

Range(s) == { s[i] : i \in DOMAIN s }

-----------------------------------------------------------------------------
(* The deployment config (WranglerConfig) *)

EnvNames == { "", "prod", "dev" }
DbNames  == { "app", "logs" }
DbIds    == { "abc123", "def456", Undef }

\* interface D1Database (the binding field is never read by the script)
D1Database == [ database_name : DbNames, database_id : DbIds ]

D1Lists   == SeqsUpTo(D1Database, MaxDbs)
D1Values  == { None } \cup { Some(l) : l \in D1Lists }
\* the list of the scopes other than the one a document varies
D1Plain   == { Some(<< >>) }

\* interface WranglerConfig: env is undefined or the environments in key
\* order, each with its own d1_databases; d1_databases is the top-level list
MkWranglerConfig(keys, d1) ==
    [ env |-> Some([ i \in 1..Len(keys) |->
                       [ key |-> keys[i], d1_databases |-> d1[i] ] ]),
      d1_databases |-> d1[0] ]

WranglerConfigs ==
    { [ env |-> None, d1_databases |-> t ] : t \in D1Values }
    \cup
    UNION { UNION { { MkWranglerConfig(keys,
                        [ s \in 0..Len(keys) |->
                            IF s = rich THEN r ELSE others[s] ])
                      : r \in D1Values, others \in [0..Len(keys) -> D1Plain] }
                    : rich \in 0..Len(keys) }
            : keys \in SeqsNoDup(EnvNames, MaxEnvs) }

\* the E2E document of the specification: one environment "prod" holding
\* one binding {database_name "app", database_id "abc123"}
BaseWranglerConfig ==
    MkWranglerConfig(<< "prod" >>,
        [ s \in 0..1 |->
            IF s = 0 THEN None
            ELSE Some(<< [ database_name |-> "app",
                           database_id |-> "abc123" ] >>) ])

\* what parsing a config file does: it throws, or it yields a document
Throws     == << >>
Yields(d)  == << d >>

-----------------------------------------------------------------------------
(* The schema-tool config (DrizzleConfig): only `out` is read *)

DrizzleConfigs == { [ out |-> Undef ], [ out |-> "drizzle" ] }

-----------------------------------------------------------------------------
(* The migrations directory: absent (None), or Some(listing) in readdir    *)
(* order, each entry a name and a last-modified time                        *)

FileNames == { "0000_init.sql", "0001_next.sql", "0002_last.sql", "meta.json" }

Listings ==
    UNION { { [ i \in 1..Len(names) |-> [ name |-> names[i], mtime |-> t[i] ] ]
              : t \in [1..Len(names) -> 1..MaxMtime] }
            : names \in SeqsNoDup(FileNames, MaxFiles) }

MigrationsDirs == { None } \cup { Some(l) : l \in Listings }

BaseMigrationsDir == Some(<< [ name |-> "0000_init.sql", mtime |-> 1 ] >>)

-----------------------------------------------------------------------------
(* Paths and strings *)

\* path.join(a, b)
Join(a, b) == a \o "/" \o b

\* String.prototype.endsWith
EndsWith(s, suffix) ==
    /\ Len(s) >= Len(suffix)
    /\ SubSeq(s, Len(s) - Len(suffix) + 1, Len(s)) = suffix

-----------------------------------------------------------------------------
(* Prompts.  consola.prompt presents options and resolves with the value of *)
(* the chosen option, resolves with nothing (the prompt was dismissed), or  *)
(* rejects.  An answer records which of the three happened.                 *)

Pick(i)   == [ kind |-> "pick", index |-> i ]
Dismissed == [ kind |-> "undefined", index |-> 0 ]
Rejected  == [ kind |-> "reject", index |-> 0 ]

\* the answers a select prompt with n options can give
SelectAnswers(n) == { Pick(i) : i \in 1..n } \cup { Dismissed, Rejected }

\* the answers of a confirm prompt: yes (1), no (2), dismissed, rejected
Yes == Pick(1)
No  == Pick(2)
ConfirmAnswers == { Yes, No, Dismissed, Rejected }
ConfirmValues  == << "true", "false" >>

\* tryCatch(promise): { data, error } of a settled promise; values is the
\* sequence of the option values
TryCatch(answer, values) ==
    [ data  |-> IF answer.kind = "pick" THEN values[answer.index] ELSE Undef,
      error |-> answer.kind = "reject" ]

-----------------------------------------------------------------------------
(* The order of the script's sections *)

\* the create-new-migration sections moved in front of the target resolution
OrderGenerateFirst ==
    << "workdir", "mode", "locateWrangler", "parseWrangler", "locateDrizzle",
       "parseDrizzle", "createNewMigration", "generate", "environment",
       "database", "recheck", "migration", "execute" >>

\* the create-new-migration sections moved in front of the database selection
OrderGenerateBeforeDatabase ==
    << "workdir", "mode", "locateWrangler", "parseWrangler", "locateDrizzle",
       "parseDrizzle", "environment", "createNewMigration", "generate",
       "database", "recheck", "migration", "execute" >>

\* the database selection moved behind the migration selection
OrderDatabaseLast ==
    << "workdir", "mode", "locateWrangler", "parseWrangler", "locateDrizzle",
       "parseDrizzle", "environment", "createNewMigration", "generate",
       "recheck", "migration", "database", "execute" >>

Order ==
    << "workdir", "mode", "locateWrangler", "parseWrangler", "locateDrizzle",
       "parseDrizzle", "environment", "database", "createNewMigration",
       "generate", "recheck", "migration", "execute" >>

IndexOf(step, order) == CHOOSE i \in DOMAIN order : order[i] = step

\* the section that follows `step`
After(step) == Order[IndexOf(step, Order) + 1]

\* process.exit(1) after an error message
Exit(msg) ==
    /\ pc' = "exited"
    /\ exitCode' = Some(1)
    /\ stderr' = Append(stderr, msg)
    /\ cancelledFrom' = state
    /\ state' = "Cancelled"

\* fall through to the next section
Continue(step) ==
    /\ pc' = After(step)
    /\ UNCHANGED << exitCode, stderr, cancelledFrom >>

\* a prompt was invoked with the values of its options and its initial
\* value, and answered; issued is the number of external commands invoked
\* before it
Prompted(name, options, initial, answer) ==
    prompts' = Append(prompts, [ prompt  |-> name,
                                 options |-> options,
                                 initial |-> initial,
                                 answer  |-> answer,
                                 issued  |-> Len(commands) ])

-----------------------------------------------------------------------------
(* Locating the config files *)

wranglerConfigs == << "wrangler.toml", "wrangler.json", "wrangler.jsonc" >>
drizzleConfigs  == << "drizzle.config.ts", "drizzle.config.js" >>

\* the existing candidates in the reverse of the priority order
FoundReversed(candidates, existing) ==
    LET Exists(c) == c \in existing
        found == SelectSeq(candidates, Exists)
    IN [ i \in 1..Len(found) |-> found[Len(found) + 1 - i] ]

\* candidates.filter((config) => existsSync(join(resolvedWorkdir, config)))
Found(candidates, existing) ==
    LET Exists(c) == c \in existing IN SelectSeq(candidates, Exists)

-----------------------------------------------------------------------------
(* Initial states: the command line, the file system and the contents of   *)
(* the config files, before the script's first statement.  Each family     *)
(* varies one part of the input in full and keeps the rest at the E2E case *)
(* of the specification.                                                   *)

Dirs == { Undef, "proj", "nodir" }
ExistingDirs == { "proj" }

\* the script's variables before its first statement
ScriptVarsAtStart ==
    /\ resolvedWorkdir = Undef
    /\ foundConfigs = << >>
    /\ wranglerConfig = None
    /\ foundDrizzleConfig = << >>
    /\ drizzleConfig = None
    /\ environments = << >>
    /\ selectedEnvironment = Undef
    /\ databases = None
    /\ selectedDatabase = None
    /\ foundDrizzleMigrationsFolder = FALSE
    /\ createNewMigration = Undef
    /\ sqlFilesWithStats = << >>
    /\ selectedMigration = ""
    /\ parsedPaths = << >>
    /\ prompts = << >>
    /\ commands = << >>
    /\ warnings = << >>
    /\ stderr = << >>
    /\ exitCode = None
    /\ state = "ResolvingConfig"
    /\ cancelledFrom = "none"

InitScript ==
    /\ pc = "workdir"
    /\ ScriptVarsAtStart
    /\ content = ""
    /\ plain = ""
    /\ document = << >>

\* the command line, the candidate files and the parse outcomes vary
InitCli ==
    /\ local \in BOOLEAN
    /\ remote \in BOOLEAN
    /\ dir \in Dirs
    /\ fsWrangler \in SUBSET Range(wranglerConfigs)
    /\ fsDrizzle \in SUBSET Range(drizzleConfigs)
    /\ wranglerFile \in { Throws, Yields(BaseWranglerConfig) }
    /\ drizzleFile \in { Throws } \cup { Yields(d) : d \in DrizzleConfigs }
    /\ migrationsDir = BaseMigrationsDir

\* the deployment config varies
InitTarget ==
    /\ local = FALSE
    /\ remote = TRUE
    /\ dir = Undef
    /\ fsWrangler = { "wrangler.toml" }
    /\ fsDrizzle = { "drizzle.config.ts" }
    /\ wranglerFile \in { Yields(d) : d \in WranglerConfigs }
    /\ drizzleFile = Yields([ out |-> "drizzle" ])
    /\ migrationsDir = BaseMigrationsDir

\* the migrations directory varies
InitMigrations ==
    /\ local = FALSE
    /\ remote = TRUE
    /\ dir = Undef
    /\ fsWrangler = { "wrangler.toml" }
    /\ fsDrizzle = { "drizzle.config.ts" }
    /\ wranglerFile = Yields(BaseWranglerConfig)
    /\ drizzleFile = Yields([ out |-> "drizzle" ])
    /\ migrationsDir \in MigrationsDirs

Init == InitScript /\ (InitCli \/ InitTarget \/ InitMigrations)

-----------------------------------------------------------------------------
(* The sections of the script *)

Cwd == "/cwd"

\* lines 163-174: resolve the working directory from --dir
ResolveWorkdir ==
    /\ pc = "workdir"
    /\ IF dir # Undef
       THEN /\ resolvedWorkdir' = Join(Cwd, dir)
            /\ IF dir \notin ExistingDirs
               THEN Exit("Error: Working directory does not exist")
               ELSE Continue("workdir") /\ UNCHANGED state
       ELSE /\ resolvedWorkdir' = Cwd
            /\ Continue("workdir") /\ UNCHANGED state
    /\ UNCHANGED << inputs, jsoncVars, parsedPaths,
                    migrationsDir, foundConfigs, wranglerConfig,
                    foundDrizzleConfig, drizzleConfig, environments,
                    selectedEnvironment, databases, selectedDatabase,
                    foundDrizzleMigrationsFolder, createNewMigration,
                    sqlFilesWithStats, selectedMigration, prompts, commands,
                    warnings >>

\* lines 176-198: ask for the execution mode when no flag was given; the
\* answer is only tested for cancellation, local and remote stay as parsed
PromptMode ==
    /\ pc = "mode"
    /\ IF ~local /\ ~remote
       THEN \E answer \in SelectAnswers(2) :
              LET r == TryCatch(answer, << "local", "remote" >>) IN
              /\ Prompted("mode", << "local", "remote" >>, "local", answer)
              /\ IF Falsy(r.data) \/ r.error
                 THEN Exit("Migration cancelled.")
                 ELSE Continue("mode") /\ UNCHANGED state
       ELSE Continue("mode") /\ UNCHANGED << state, prompts >>
    /\ UNCHANGED << inputs, jsoncVars, parsedPaths,
                    migrationsDir, resolvedWorkdir, foundConfigs,
                    wranglerConfig, foundDrizzleConfig, drizzleConfig,
                    environments, selectedEnvironment, databases,
                    selectedDatabase, foundDrizzleMigrationsFolder,
                    createNewMigration, sqlFilesWithStats, selectedMigration,
                    commands, warnings >>

\* lines 200-219: look for the wrangler configuration files
LocateWrangler ==
    /\ pc = "locateWrangler"
    /\ LET found == Found(wranglerConfigs, fsWrangler) IN
       /\ foundConfigs' = found
       /\ IF Len(found) = 0
          THEN Exit("Error: No wrangler configuration file found")
               /\ UNCHANGED warnings
          ELSE /\ Continue("locateWrangler") /\ UNCHANGED state
               /\ warnings' = IF Len(found) > 1
                              THEN Append(warnings,
                                     "Warning: Multiple wrangler config files found")
                              ELSE warnings
    /\ UNCHANGED << inputs, jsoncVars, parsedPaths,
                    migrationsDir, resolvedWorkdir, wranglerConfig,
                    foundDrizzleConfig, drizzleConfig, environments,
                    selectedEnvironment, databases, selectedDatabase,
                    foundDrizzleMigrationsFolder, createNewMigration,
                    sqlFilesWithStats, selectedMigration, prompts, commands >>

\* line 221
configPath == Join(resolvedWorkdir, foundConfigs[1])

\* lines 222-231: parse the first wrangler config found
ParseWrangler ==
    /\ pc = "parseWrangler"
    /\ IF wranglerFile = Throws
       THEN Exit("Failed to parse wrangler config") /\ UNCHANGED wranglerConfig
       ELSE /\ wranglerConfig' = Some(Get(wranglerFile))
            /\ Continue("parseWrangler") /\ UNCHANGED state
    /\ parsedPaths' = Append(parsedPaths, configPath)
    /\ UNCHANGED << inputs, jsoncVars,
                    migrationsDir, resolvedWorkdir, foundConfigs,
                    foundDrizzleConfig, drizzleConfig, environments,
                    selectedEnvironment, databases, selectedDatabase,
                    foundDrizzleMigrationsFolder, createNewMigration,
                    sqlFilesWithStats, selectedMigration, prompts, commands,
                    warnings >>

\* lines 233-252: look for the drizzle config file
LocateDrizzle ==
    /\ pc = "locateDrizzle"
    /\ LET found == Found(drizzleConfigs, fsDrizzle) IN
       /\ foundDrizzleConfig' = found
       /\ IF Len(found) = 0
          THEN Exit("Error: No drizzle configuration file found")
               /\ UNCHANGED warnings
          ELSE /\ Continue("locateDrizzle") /\ UNCHANGED state
               /\ warnings' = IF Len(found) > 1
                              THEN Append(warnings,
                                     "Warning: Multiple drizzle config files found")
                              ELSE warnings
    /\ UNCHANGED << inputs, jsoncVars, parsedPaths,
                    migrationsDir, resolvedWorkdir, foundConfigs,
                    wranglerConfig, drizzleConfig, environments,
                    selectedEnvironment, databases, selectedDatabase,
                    foundDrizzleMigrationsFolder, createNewMigration,
                    sqlFilesWithStats, selectedMigration, prompts, commands >>

\* lines 254-257
drizzleConfigPath == Join(resolvedWorkdir, foundDrizzleConfig[1])

\* lines 259-268: load the drizzle config; both documents are now resolved
ParseDrizzle ==
    /\ pc = "parseDrizzle"
    /\ IF drizzleFile = Throws
       THEN Exit("Failed to parse drizzle config") /\ UNCHANGED drizzleConfig
       ELSE /\ drizzleConfig' = Some(Get(drizzleFile))
            /\ Continue("parseDrizzle")
            /\ state' = "ResolvingTarget"
    /\ parsedPaths' = Append(parsedPaths, drizzleConfigPath)
    /\ UNCHANGED << inputs, jsoncVars,
                    migrationsDir, resolvedWorkdir, foundConfigs,
                    wranglerConfig, foundDrizzleConfig, environments,
                    selectedEnvironment, databases, selectedDatabase,
                    foundDrizzleMigrationsFolder, createNewMigration,
                    sqlFilesWithStats, selectedMigration, prompts, commands,
                    warnings >>

-----------------------------------------------------------------------------
(* Target resolution *)

\* line 271: Object.keys(wranglerConfig.env ?? {})
EnvironmentKeys(config) ==
    IF config.env = None THEN << >>
    ELSE [ i \in 1..Len(Get(config.env)) |-> Get(config.env)[i].key ]

\* the comparison of line 274 inverted
AutoSelectWhenSeveral(envs) == Len(envs) > 1

\* line 274: the condition under which the environment is taken without a
\* prompt
AutoSelectEnvironment(envs) == Len(envs) = 1

\* lines 270-296: select the environment
SelectEnvironment ==
    /\ pc = "environment"
    /\ LET envs == EnvironmentKeys(Get(wranglerConfig)) IN
       /\ environments' = envs
       /\ IF AutoSelectEnvironment(envs)
          THEN /\ selectedEnvironment' = envs[1]
               /\ Continue("environment")
               /\ UNCHANGED << state, prompts >>
          ELSE \E answer \in SelectAnswers(Len(envs)) :
                 LET r == TryCatch(answer, envs) IN
                 /\ Prompted("environment", envs,
                             IF envs = << >> THEN Undef ELSE envs[1],
                             answer)
                 /\ IF Falsy(r.data) \/ r.error
                    THEN Exit("Migration cancelled.")
                         /\ UNCHANGED selectedEnvironment
                    ELSE /\ selectedEnvironment' = r.data
                         /\ Continue("environment") /\ UNCHANGED state
    /\ UNCHANGED << inputs, jsoncVars, parsedPaths,
                    migrationsDir, resolvedWorkdir, foundConfigs,
                    wranglerConfig, foundDrizzleConfig, drizzleConfig,
                    databases, selectedDatabase, foundDrizzleMigrationsFolder,
                    createNewMigration, sqlFilesWithStats, selectedMigration,
                    commands, warnings >>

\* wranglerConfig.env?.[name]?.["d1_databases"]
EnvDatabases(config, name) ==
    IF config.env = None THEN None
    ELSE LET env == Get(config.env)
             hits == { i \in DOMAIN env : env[i].key = name }
         IN IF hits = {} THEN None
            ELSE env[CHOOSE i \in hits : TRUE].d1_databases

\* the top-level binding list whatever the environment
ScopeTopLevel(config, selected) == config.d1_databases

\* lines 300-304: the binding list of the chosen scope
ScopeDatabases(config, selected) ==
    IF ~Falsy(selected)
    THEN EnvDatabases(config, selected)
    ELSE config.d1_databases

\* lines 313-316: the values of the database choices
DbChoiceValues(dbs) ==
    [ i \in 1..Len(dbs) |-> Coalesce(dbs[i].database_id, "") ]

\* line 331: databases.find((db) => db.database_id === data)
FindDatabase(dbs, data) ==
    LET hits == { i \in DOMAIN dbs : dbs[i].database_id = data }
    IN IF hits = {} THEN None
       ELSE Some(dbs[CHOOSE i \in hits : \A j \in hits : i <= j])

\* the condition, asking for an identifier as well
AutoSelectWithIdentifier(dbs) == Len(dbs) = 1 /\ dbs[1].database_id # Undef

\* line 310: the condition under which the database is taken without a
\* prompt
AutoSelectDatabase(dbs) == Len(dbs) = 1

\* lines 298-332: select the database
SelectDatabase ==
    /\ pc = "database"
    /\ LET scope == ScopeDatabases(Get(wranglerConfig), selectedEnvironment) IN
       /\ databases' = scope
       /\ IF scope = None
          THEN \* databases.length on undefined: uncaught TypeError
               /\ Exit("TypeError: Cannot read properties of undefined")
               /\ UNCHANGED << selectedDatabase, prompts >>
          ELSE LET dbs == Get(scope) IN
               IF Len(dbs) = 0
               THEN /\ Exit("No cloudflare d1 databases found/configured.")
                    /\ UNCHANGED << selectedDatabase, prompts >>
               ELSE IF AutoSelectDatabase(dbs)
               THEN /\ selectedDatabase' = Some(dbs[1])
                    /\ Continue("database")
                    /\ state' = "ResolvingMigrations"
                    /\ UNCHANGED prompts
               ELSE \E answer \in SelectAnswers(Len(dbs)) :
                      LET r == TryCatch(answer, DbChoiceValues(dbs)) IN
                      /\ Prompted("database", DbChoiceValues(dbs), "local",
                                  answer)
                      /\ IF Falsy(r.data) \/ r.error
                         THEN Exit("Migration cancelled.")
                              /\ UNCHANGED selectedDatabase
                         ELSE /\ selectedDatabase' = FindDatabase(dbs, r.data)
                              /\ Continue("database")
                              /\ state' = "ResolvingMigrations"
    /\ UNCHANGED << inputs, jsoncVars, parsedPaths,
                    migrationsDir, resolvedWorkdir, foundConfigs,
                    wranglerConfig, foundDrizzleConfig, drizzleConfig,
                    environments, selectedEnvironment,
                    foundDrizzleMigrationsFolder, createNewMigration,
                    sqlFilesWithStats, selectedMigration, commands, warnings >>

-----------------------------------------------------------------------------
(* Migration set resolution *)

\* drizzleConfig.out ?? "drizzle"
OutFolder == Coalesce(Get(drizzleConfig).out, "drizzle")

\* line 391
migrationsFolder == Join(resolvedWorkdir, OutFolder)

\* lines 334-351: offer to create a new migration; only a rejected prompt
\* is taken as a cancellation
PromptCreateMigration ==
    /\ pc = "createNewMigration"
    /\ foundDrizzleMigrationsFolder' = (migrationsDir # None)
    /\ \E answer \in ConfirmAnswers :
         LET r == TryCatch(answer, ConfirmValues) IN
         /\ Prompted("createNewMigration", ConfirmValues, "false", answer)
         /\ createNewMigration' = r.data
         /\ IF r.error
            THEN Exit("Migration cancelled.")
            ELSE Continue("createNewMigration") /\ UNCHANGED state
    /\ UNCHANGED << inputs, jsoncVars, parsedPaths,
                    migrationsDir, resolvedWorkdir, foundConfigs,
                    wranglerConfig, foundDrizzleConfig, drizzleConfig,
                    environments, selectedEnvironment, databases,
                    selectedDatabase, sqlFilesWithStats, selectedMigration,
                    commands, warnings >>

\* what a successful `drizzle-kit generate` may leave in the migrations
\* directory: nothing new, or one new .sql file with the latest time
GenerateOutcomes(d) ==
    LET listing == IF d = None THEN << >> ELSE Get(d)
        used    == { listing[i].name : i \in DOMAIN listing }
        fresh   == { n \in FileNames \ used : EndsWith(n, ".sql") }
    IN { d } \cup
       IF Len(listing) < MaxFiles
       THEN { Some(Append(listing, [ name |-> n, mtime |-> MaxMtime ]))
              : n \in fresh }
       ELSE {}

\* lines 353-376: run the external generate command when asked to
Generate ==
    /\ pc = "generate"
    /\ IF createNewMigration = "true"
       THEN \E ok \in BOOLEAN :
              /\ commands' = Append(commands,
                               [ cmd  |-> "generate",
                                 args |-> << "drizzle-kit", "generate" >>,
                                 cwd  |-> resolvedWorkdir,
                                 ok   |-> ok ])
              /\ IF ok
                 THEN /\ migrationsDir' \in GenerateOutcomes(migrationsDir)
                      /\ Continue("generate") /\ UNCHANGED state
                 ELSE /\ Exit("Failed to create migration")
                      /\ UNCHANGED migrationsDir
       ELSE /\ Continue("generate")
            /\ UNCHANGED << state, commands, migrationsDir >>
    /\ UNCHANGED << inputs, jsoncVars, parsedPaths,
                    resolvedWorkdir, foundConfigs, wranglerConfig,
                    foundDrizzleConfig, drizzleConfig, environments,
                    selectedEnvironment, databases, selectedDatabase,
                    foundDrizzleMigrationsFolder, createNewMigration,
                    sqlFilesWithStats, selectedMigration, prompts, warnings >>

\* the re-check without its exit
RecheckFolderNoExit ==
    /\ pc = "recheck"
    /\ foundDrizzleMigrationsFolder' = (migrationsDir # None)
    /\ Continue("recheck") /\ UNCHANGED state
    /\ UNCHANGED << inputs, jsoncVars, parsedPaths,
                    migrationsDir, resolvedWorkdir, foundConfigs,
                    wranglerConfig, foundDrizzleConfig, drizzleConfig,
                    environments, selectedEnvironment, databases,
                    selectedDatabase, createNewMigration, sqlFilesWithStats,
                    selectedMigration, prompts, commands, warnings >>

\* lines 378-387: the migrations folder must exist by now
RecheckFolder ==
    /\ pc = "recheck"
    /\ foundDrizzleMigrationsFolder' = (migrationsDir # None)
    /\ IF migrationsDir = None
       THEN Exit("Migration cancelled: Was not able to locate migrations folder")
       ELSE Continue("recheck") /\ UNCHANGED state
    /\ UNCHANGED << inputs, jsoncVars, parsedPaths,
                    migrationsDir, resolvedWorkdir, foundConfigs,
                    wranglerConfig, foundDrizzleConfig, drizzleConfig,
                    environments, selectedEnvironment, databases,
                    selectedDatabase, createNewMigration, sqlFilesWithStats,
                    selectedMigration, prompts, commands, warnings >>

\* line 393: allFiles.filter((file) => file.endsWith(".sql"))
SqlFiles(listing) ==
    LET IsSql(f) == EndsWith(f.name, ".sql") IN SelectSeq(listing, IsSql)

\* x goes in front of the elements of its own time
RECURSIVE InsertByMtimeUnstable(_, _)
InsertByMtimeUnstable(x, sorted) ==
    IF sorted = << >> THEN << x >>
    ELSE IF Head(sorted).mtime > x.mtime
         THEN << Head(sorted) >> \o InsertByMtimeUnstable(x, Tail(sorted))
         ELSE << x >> \o sorted

\* Array.prototype.sort inserts stably: x goes behind every element that
\* does not compare after it
RECURSIVE InsertByMtime(_, _)
InsertByMtime(x, sorted) ==
    IF sorted = << >> THEN << x >>
    ELSE IF Head(sorted).mtime >= x.mtime
         THEN << Head(sorted) >> \o InsertByMtime(x, Tail(sorted))
         ELSE << x >> \o sorted

\* line 409: .sort((a, b) => b.mtime.getTime() - a.mtime.getTime())
RECURSIVE SortByMtime(_)
SortByMtime(files) ==
    IF files = << >> THEN << >>
    ELSE InsertByMtime(files[Len(files)],
                       SortByMtime(SubSeq(files, 1, Len(files) - 1)))

\* lines 399-409: name, path and mtime of every .sql file, newest first
SqlFilesWithStats(listing) ==
    LET sql == SqlFiles(listing)
    IN SortByMtime([ i \in 1..Len(sql) |->
                       [ name  |-> sql[i].name,
                         path  |-> Join(migrationsFolder, sql[i].name),
                         mtime |-> sql[i].mtime ] ])

\* the choices with the file names as values
MigrationChoiceNames(sorted) == [ i \in 1..Len(sorted) |-> sorted[i].name ]

\* lines 413-416: the values of the migration choices
MigrationChoiceValues(sorted) == [ i \in 1..Len(sorted) |-> sorted[i].path ]

\* lines 389-432: list the migrations and let the user select one
SelectMigration ==
    /\ pc = "migration"
    /\ LET listing == Get(migrationsDir)
           sorted  == SqlFilesWithStats(listing)
       IN IF Len(SqlFiles(listing)) = 0
          THEN /\ warnings' = Append(warnings,
                    "No SQL migration files found in the migrations folder.")
               /\ Continue("migration")
               /\ state' = "Executing"
               /\ UNCHANGED << sqlFilesWithStats, selectedMigration, prompts >>
          ELSE /\ sqlFilesWithStats' = sorted
               /\ UNCHANGED warnings
               /\ \E answer \in SelectAnswers(Len(sorted)) :
                    LET r == TryCatch(answer, MigrationChoiceValues(sorted))
                    IN /\ Prompted("migration", MigrationChoiceValues(sorted),
                                   sorted[1].path, answer)
                       /\ IF Falsy(r.data) \/ r.error
                          THEN Exit("Migration cancelled.")
                               /\ UNCHANGED selectedMigration
                          ELSE /\ selectedMigration' = r.data
                               /\ Continue("migration")
                               /\ state' = "Executing"
    /\ UNCHANGED << inputs, jsoncVars, parsedPaths,
                    migrationsDir, resolvedWorkdir, foundConfigs,
                    wranglerConfig, foundDrizzleConfig, drizzleConfig,
                    environments, selectedEnvironment, databases,
                    selectedDatabase, foundDrizzleMigrationsFolder,
                    createNewMigration, commands >>

-----------------------------------------------------------------------------
(* Execution *)

\* selectedDatabase?.database_name ?? ""
DatabaseName(db) == IF db = None THEN "" ELSE Get(db).database_name

\* the arguments without the environment flag
MigrationParamsNoEnv ==
    LET NotEmpty(prop) == prop # "" IN
    SelectSeq(
        << "wrangler", "d1", "execute",
           DatabaseName(selectedDatabase),
           IF local THEN "--local" ELSE "",
           IF remote THEN "--remote" ELSE "",
           "--file", selectedMigration >>,
        NotEmpty)

\* lines 437-447: the arguments of the execute invocation
MigrationParams ==
    LET NotEmpty(prop) == prop # "" IN
    SelectSeq(
        << "wrangler", "d1", "execute",
           DatabaseName(selectedDatabase),
           IF local THEN "--local" ELSE "",
           IF remote THEN "--remote" ELSE "" >>
        \o (IF ~Falsy(selectedEnvironment)
            THEN << "--env", selectedEnvironment >> ELSE << >>)
        \o << "--file", selectedMigration >>,
        NotEmpty)

\* the execute section without the exit of its catch block
ExecuteIgnoresFailure ==
    /\ pc = "execute"
    /\ \E ok \in BOOLEAN :
         commands' = Append(commands,
                       [ cmd  |-> "execute",
                         args |-> MigrationParams,
                         cwd  |-> resolvedWorkdir,
                         ok   |-> ok ])
    /\ pc' = "exited"
    /\ exitCode' = Some(0)
    /\ state' = "Done"
    /\ UNCHANGED << stderr, cancelledFrom >>
    /\ UNCHANGED << inputs, jsoncVars, parsedPaths,
                    migrationsDir, resolvedWorkdir, foundConfigs,
                    wranglerConfig, foundDrizzleConfig, drizzleConfig,
                    environments, selectedEnvironment, databases,
                    selectedDatabase, foundDrizzleMigrationsFolder,
                    createNewMigration, sqlFilesWithStats, selectedMigration,
                    prompts, warnings >>

\* lines 434-456: run the external execute command and report its result
Execute ==
    /\ pc = "execute"
    /\ \E ok \in BOOLEAN :
         /\ commands' = Append(commands,
                          [ cmd  |-> "execute",
                            args |-> MigrationParams,
                            cwd  |-> resolvedWorkdir,
                            ok   |-> ok ])
         /\ IF ok
            THEN /\ pc' = "exited"
                 /\ exitCode' = Some(0)
                 /\ state' = "Done"
                 /\ UNCHANGED << stderr, cancelledFrom >>
            ELSE Exit("Migration cancelled: ")
    /\ UNCHANGED << inputs, jsoncVars, parsedPaths,
                    migrationsDir, resolvedWorkdir, foundConfigs,
                    wranglerConfig, foundDrizzleConfig, drizzleConfig,
                    environments, selectedEnvironment, databases,
                    selectedDatabase, foundDrizzleMigrationsFolder,
                    createNewMigration, sqlFilesWithStats, selectedMigration,
                    prompts, warnings >>

Next ==
    \/ ResolveWorkdir
    \/ PromptMode
    \/ LocateWrangler
    \/ ParseWrangler
    \/ LocateDrizzle
    \/ ParseDrizzle
    \/ SelectEnvironment
    \/ SelectDatabase
    \/ PromptCreateMigration
    \/ Generate
    \/ RecheckFolder
    \/ SelectMigration
    \/ Execute

Spec == Init /\ [][Next]_vars

-----------------------------------------------------------------------------
(* parseJsonc (utils/parse-wrangler-config.ts and utils/parse-drizzle-     *)
(* config.ts hold the same function): three regular-expression             *)
(* replacements, then JSON.parse                                           *)

Char(s, i) == SubSeq(s, i, i)

\* the index of the next line terminator at or after i, Len(s) + 1 if none
RECURSIVE EndOfLine(_, _)
EndOfLine(s, i) ==
    IF i > Len(s) \/ Char(s, i) = "\n" THEN i ELSE EndOfLine(s, i + 1)

\* content.replace(/\/\/.*$/gm, ""): from every // to the end of its line
RECURSIVE StripLineComments(_, _)
StripLineComments(s, i) ==
    IF i > Len(s) THEN ""
    ELSE IF i < Len(s) /\ SubSeq(s, i, i + 1) = "//"
         THEN StripLineComments(s, EndOfLine(s, i))
         ELSE Char(s, i) \o StripLineComments(s, i + 1)

\* the index of the next */ at or after i, 0 if none
RECURSIVE BlockEnd(_, _)
BlockEnd(s, i) ==
    IF i >= Len(s) THEN 0
    ELSE IF SubSeq(s, i, i + 1) = "*/" THEN i
    ELSE BlockEnd(s, i + 1)

\* cleaned.replace(/\/\*[\s\S]*?\*\//g, ""): from every /* to the next */
RECURSIVE StripBlockComments(_, _)
StripBlockComments(s, i) ==
    IF i > Len(s) THEN ""
    ELSE IF /\ i < Len(s)
            /\ SubSeq(s, i, i + 1) = "/*"
            /\ BlockEnd(s, i + 2) # 0
         THEN StripBlockComments(s, BlockEnd(s, i + 2) + 2)
         ELSE Char(s, i) \o StripBlockComments(s, i + 1)

\* \s of the regular expressions, and the whitespace of JSON
Whitespace == { " ", "\n", "\t", "\r" }

\* the index of the first character at or after i that is not whitespace
RECURSIVE SkipWhitespace(_, _)
SkipWhitespace(s, i) ==
    IF i <= Len(s) /\ Char(s, i) \in Whitespace
    THEN SkipWhitespace(s, i + 1) ELSE i

\* cleaned.replace(/,(\s*[}\]])/g, "$1"): every comma that only whitespace
\* separates from a closing brace or bracket
RECURSIVE StripTrailingCommas(_, _)
StripTrailingCommas(s, i) ==
    IF i > Len(s) THEN ""
    ELSE IF /\ Char(s, i) = ","
            /\ SkipWhitespace(s, i + 1) <= Len(s)
            /\ Char(s, SkipWhitespace(s, i + 1)) \in { "}", "]" }
         THEN StripTrailingCommas(s, i + 1)
         ELSE Char(s, i) \o StripTrailingCommas(s, i + 1)

\* parse-wrangler-config.ts lines 9-15: the text handed to JSON.parse
Cleaned(text) ==
    StripTrailingCommas(
        StripBlockComments(StripLineComments(text, 1), 1), 1)

(* JSON.parse, on texts of objects, arrays, strings without escapes and    *)
(* one-digit numbers.  A document is written as the sequence of its        *)
(* tokens; a text that is not JSON gives SyntaxError.                      *)

SyntaxError == << "SyntaxError" >>
Digits      == { "0", "1", "2" }
Punctuation == { "{", "}", "[", "]", ",", ":" }

\* the index of the closing quote of the string opened before i, 0 if the
\* string is not closed on its line
RECURSIVE StringEnd(_, _)
StringEnd(s, i) ==
    IF i > Len(s) \/ Char(s, i) = "\n" THEN 0
    ELSE IF Char(s, i) = "\"" THEN i
    ELSE StringEnd(s, i + 1)

\* the tokens of s from index i on; an illegal character gives the token
\* "illegal"
RECURSIVE Lex(_, _)
Lex(s, i) ==
    LET j == SkipWhitespace(s, i) IN
    IF j > Len(s) THEN << >>
    ELSE IF Char(s, j) \in Punctuation \cup Digits
         THEN << Char(s, j) >> \o Lex(s, j + 1)
    ELSE IF Char(s, j) = "\"" /\ StringEnd(s, j + 1) # 0
         THEN << SubSeq(s, j, StringEnd(s, j + 1)) >>
              \o Lex(s, StringEnd(s, j + 1) + 1)
    ELSE << "illegal" >>

IsStringToken(t) == Char(t, 1) = "\""

\* the index behind the JSON value that starts at token i, 0 if there is
\* no value there
RECURSIVE ValueEnd(_, _), ElementsEnd(_, _), MembersEnd(_, _)
ValueEnd(t, i) ==
    IF i > Len(t) THEN 0
    ELSE IF IsStringToken(t[i]) \/ t[i] \in Digits THEN i + 1
    ELSE IF t[i] = "["
         THEN IF i < Len(t) /\ t[i + 1] = "]" THEN i + 2
              ELSE ElementsEnd(t, i + 1)
    ELSE IF t[i] = "{"
         THEN IF i < Len(t) /\ t[i + 1] = "}" THEN i + 2
              ELSE MembersEnd(t, i + 1)
    ELSE 0

\* the index behind the closing bracket of the elements that start at i
ElementsEnd(t, i) ==
    LET e == ValueEnd(t, i) IN
    IF e = 0 \/ e > Len(t) THEN 0
    ELSE IF t[e] = "]" THEN e + 1
    ELSE IF t[e] = "," THEN ElementsEnd(t, e + 1)
    ELSE 0

\* the index behind the closing brace of the members that start at i
MembersEnd(t, i) ==
    IF i + 1 > Len(t) \/ ~IsStringToken(t[i]) \/ t[i + 1] # ":" THEN 0
    ELSE LET e == ValueEnd(t, i + 2) IN
         IF e = 0 \/ e > Len(t) THEN 0
         ELSE IF t[e] = "}" THEN e + 1
         ELSE IF t[e] = "," THEN MembersEnd(t, e + 1)
         ELSE 0

\* JSON.parse(text)
JsonParse(text) ==
    LET t == Lex(text, 1) IN
    IF ValueEnd(t, 1) = Len(t) + 1 THEN t ELSE SyntaxError

\* parse-wrangler-config.ts lines 7-18: parseJsonc(content); a SyntaxError
\* is what it throws
ParseJsoncResult(text) == JsonParse(Cleaned(text))

(* The .jsonc texts: a document with a string value, comments or blanks at *)
(* two places and an optional trailing comma; the same document in plain   *)
(* JSON has neither.                                                        *)

StringLiterals == { "\"x\"", "\"//x\"", "\"/*x*/\"", "\"a,}\"", "\"a, ]\"" }
Comments       == { "", " ", "// c\n", "/* c */", "/* a\n b */", "/* // */" }
TrailingCommas == { "", ",", ", " }

JsoncObject(v, c1, c2, comma) == "{" \o c1 \o "\"k\":" \o v \o c2 \o comma \o "}"
JsoncArray(v, c1, c2, comma)  == "[" \o c1 \o "1," \o v \o comma \o c2 \o "]"

InitJsonc ==
    /\ pc = "parseJsonc"
    /\ ScriptVarsAtStart
    /\ local = FALSE
    /\ remote = TRUE
    /\ dir = Undef
    /\ fsWrangler = { "wrangler.jsonc" }
    /\ fsDrizzle = { "drizzle.config.ts" }
    /\ wranglerFile = Yields(BaseWranglerConfig)
    /\ drizzleFile = Yields([ out |-> "drizzle" ])
    /\ migrationsDir = BaseMigrationsDir
    /\ document = << >>
    /\ \E v \in StringLiterals, c1 \in Comments, c2 \in Comments,
          comma \in TrailingCommas :
         \/ /\ content = JsoncObject(v, c1, c2, comma)
            /\ plain = JsoncObject(v, "", "", "")
         \/ /\ content = JsoncArray(v, c1, c2, comma)
            /\ plain = JsoncArray(v, "", "", "")

\* parseJsonc(content)
ParseJsonc ==
    /\ pc = "parseJsonc"
    /\ document' = ParseJsoncResult(content)
    /\ pc' = "parsed"
    /\ UNCHANGED << inputs, content, plain, parsedPaths, migrationsDir,
                    resolvedWorkdir, foundConfigs, wranglerConfig,
                    foundDrizzleConfig, drizzleConfig, environments,
                    selectedEnvironment, databases, selectedDatabase,
                    foundDrizzleMigrationsFolder, createNewMigration,
                    sqlFilesWithStats, selectedMigration, prompts, commands,
                    warnings, stderr, exitCode, state, cancelledFrom >>

NextJsonc == ParseJsonc

SpecJsonc == InitJsonc /\ [][NextJsonc]_vars

-----------------------------------------------------------------------------
(* Properties *)

Last(s) == s[Len(s)]

Has(args, flag) == \E i \in DOMAIN args : args[i] = flag

IsExecute(c)  == c.cmd = "execute"
IsGenerate(c) == c.cmd = "generate"

Executes == SelectSeq(commands, IsExecute)

PromptNames == [ i \in DOMAIN prompts |-> prompts[i].prompt ]

ModeFlags == << "--local", "--remote" >>

\* C1: when no mode flag is given and the user picks a mode at the mode
\* prompt, every execute invocation carries the flag of the picked mode.
C1_PickedModeIsPassed ==
    \A i \in DOMAIN commands : \A j \in DOMAIN prompts :
        ( /\ IsExecute(commands[i])
          /\ prompts[j].prompt = "mode"
          /\ prompts[j].answer.kind = "pick" )
        => Has(commands[i].args, ModeFlags[prompts[j].answer.index])

\* C2: every execute invocation carries exactly one of --local and --remote.
C2_ExactlyOneModeFlag ==
    \A i \in DOMAIN commands :
        IsExecute(commands[i])
        => (Has(commands[i].args, "--local") # Has(commands[i].args, "--remote"))

\* C3: when the user picks entry i at the database prompt, the selected
\* database is the binding at position i of the scope's list (also with
\* shared identifiers, also when binding i has no identifier).
C3_PickedDatabaseByPosition ==
    \A j \in DOMAIN prompts :
        (prompts[j].prompt = "database" /\ prompts[j].answer.kind = "pick")
        => selectedDatabase = Some(Get(databases)[prompts[j].answer.index])

\* C4: with zero environments the environment prompt is not invoked, and
\* the bindings are read from the top-level document.
C4_NoEnvironmentsNoPrompt ==
    (wranglerConfig # None /\ EnvironmentKeys(Get(wranglerConfig)) = << >>)
    => /\ \A j \in DOMAIN prompts : prompts[j].prompt # "environment"
       /\ databases # None => databases = Get(wranglerConfig).d1_databases

\* C5: with exactly one environment key the environment prompt is never
\* invoked, and once the environment is resolved that key is selected.
C5_SingleEnvironmentAutoSelected ==
    (wranglerConfig # None /\ Len(EnvironmentKeys(Get(wranglerConfig))) = 1)
    => /\ \A j \in DOMAIN prompts : prompts[j].prompt # "environment"
       /\ environments # << >>
          => selectedEnvironment = EnvironmentKeys(Get(wranglerConfig))[1]

C5_Witness ==
    /\ Len(environments) = 1
    /\ selectedEnvironment = "prod"
    /\ state = "Done"

\* C6: a prompt that is dismissed (undefined) or rejected (error) ends the
\* run Cancelled with exit status 1, and no external command is invoked
\* after it.
C6_CancelledPromptAborts ==
    \A j \in DOMAIN prompts :
        prompts[j].answer.kind \in { "undefined", "reject" }
        => /\ state = "Cancelled"
           /\ exitCode = Some(1)
           /\ Len(commands) = prompts[j].issued

ZeroBindings(scope) == scope = None \/ scope = Some(<< >>)

\* C7: when the chosen scope has zero bindings (an empty list or no list),
\* the database step aborts with the "no databases" error and status 1,
\* before the create-new-migration prompt and any external command.
C7_ZeroBindingsIsFatal ==
    [][ ( /\ pc = "database"
          /\ ZeroBindings(ScopeDatabases(Get(wranglerConfig),
                                         selectedEnvironment)) )
        => /\ exitCode' = Some(1)
           /\ Last(stderr') = "No cloudflare d1 databases found/configured."
           /\ commands' = << >>
           /\ \A j \in DOMAIN prompts' :
                 prompts'[j].prompt # "createNewMigration" ]_vars

\* the E2E case: one environment "prod" with one binding, one .sql file in
\* the migrations directory, --remote
E2E ==
    /\ remote /\ ~local
    /\ wranglerConfig # None
    /\ EnvironmentKeys(Get(wranglerConfig)) = << "prod" >>
    /\ EnvDatabases(Get(wranglerConfig), "prod") # None
    /\ Len(Get(EnvDatabases(Get(wranglerConfig), "prod"))) = 1
    /\ drizzleConfig # None
    /\ migrationsDir # None
    /\ Len(SqlFiles(Get(migrationsDir))) = 1

E2ETarget ==
    LET db   == Get(EnvDatabases(Get(wranglerConfig), "prod"))[1]
        file == SqlFiles(Get(migrationsDir))[1]
    IN /\ selectedEnvironment = "prod"
       /\ selectedDatabase = Some(db)
       /\ selectedMigration = Join(migrationsFolder, file.name)
       /\ Len(Executes) = 1
       /\ Executes[1].args =
            << "wrangler", "d1", "execute", db.database_name, "--remote",
               "--env", "prod", "--file", Join(migrationsFolder, file.name) >>

\* C8 as stated: in the E2E case the run reaches Done without any prompt,
\* with the E2E target and exactly one execute invocation.
C8_E2EWithoutAnyPrompt ==
    (E2E /\ state = "Done") => (prompts = << >> /\ E2ETarget)

\* C8 amended: in the E2E case no mode, environment or database prompt is
\* invoked; a run that reaches Done has invoked exactly the
\* create-new-migration confirmation and the migration selection prompt,
\* has the E2E target, and has issued exactly one execute invocation.
C8_E2ETarget ==
    E2E => /\ \A j \in DOMAIN prompts :
                prompts[j].prompt \in { "createNewMigration", "migration" }
           /\ state = "Done"
              => /\ PromptNames = << "createNewMigration", "migration" >>
                 /\ E2ETarget

C8_Witness ==
    /\ E2E
    /\ state = "Done"
    /\ dir = "proj"
    /\ Get(selectedDatabase).database_name = "app"

\* C9 as stated: no external command is invoked while the run is in a state
\* earlier than Executing.
C9_NoCommandBeforeExecuting ==
    [][ commands' # commands
        => state \notin { "ResolvingConfig", "ResolvingTarget",
                          "ResolvingMigrations" } ]_vars

\* C9 amended: execute is invoked only in Executing, and generate only in
\* ResolvingMigrations (never in ResolvingConfig or ResolvingTarget).
C9_CommandsInTheirState ==
    [][ commands' # commands
        => /\ commands' = Append(commands, Last(commands'))
           /\ IsExecute(Last(commands')) => state = "Executing"
           /\ IsGenerate(Last(commands')) => state = "ResolvingMigrations" ]_vars

C9_Witness ==
    /\ Len(commands) = 2
    /\ IsGenerate(commands[1])
    /\ IsExecute(commands[2])

\* C10: a run that aborts during config location and parsing, environment
\* resolution or database resolution has invoked no external command.
C10_EarlyAbortNoCommand ==
    (state = "Cancelled"
       /\ cancelledFrom \in { "ResolvingConfig", "ResolvingTarget" })
    => commands = << >>

C10_Witness ==
    /\ state = "Cancelled"
    /\ cancelledFrom = "ResolvingTarget"
    /\ prompts # << >>
    /\ Last(prompts).prompt = "database"

\* the first candidate, in priority order, that exists
FirstExisting(candidates, existing) ==
    candidates[CHOOSE i \in DOMAIN candidates :
                 /\ candidates[i] \in existing
                 /\ \A j \in 1..(i - 1) : candidates[j] \notin existing]

WranglerAmbiguity == "Warning: Multiple wrangler config files found"
DrizzleAmbiguity  == "Warning: Multiple drizzle config files found"

\* what the locating step of one config kind must do: with no candidate it
\* exits with status 1 and no file of that kind is handed to a parser; with
\* candidates it goes on, and warns exactly when there are several
LocatorStep(existing, ambiguity, parsedBefore) ==
    IF existing = {}
    THEN /\ exitCode' = Some(1)
         /\ pc' = "exited"
         /\ parsedPaths' = parsedBefore
         /\ warnings' = warnings
    ELSE /\ exitCode' = None
         /\ pc' # "exited"
         /\ (Cardinality(existing) > 1) <=> (warnings' = Append(warnings, ambiguity))
         /\ (Cardinality(existing) = 1) <=> (warnings' = warnings)

NoFolderMessage ==
    "Migration cancelled: Was not able to locate migrations folder"

\* C12: when the migrations directory is absent at the re-check after the
\* create-new-migration step, the run exits with status 1 and no execute
\* invocation; the directory is listed only when the re-check found it.
C12_MissingFolderIsFatal ==
    [][ /\ (pc = "recheck" /\ migrationsDir = None)
           => /\ pc' = "exited"
              /\ exitCode' = Some(1)
              /\ state' = "Cancelled"
              /\ \A i \in DOMAIN commands' : ~IsExecute(commands'[i])
        /\ pc' = "migration" => migrationsDir' # None ]_vars

C12_Witness ==
    /\ migrationsDir = None
    /\ stderr = << NoFolderMessage >>
    /\ exitCode = Some(1)
    /\ Len(commands) = 1
    /\ IsGenerate(commands[1]) /\ commands[1].ok

\* the position of the entry called name in the directory listing
ListingIndex(listing, name) ==
    CHOOSE k \in DOMAIN listing : listing[k].name = name

C14_ExitStatus ==
    /\ pc # "exited" => exitCode = None /\ stderr = << >>
    /\ pc = "exited"
       => /\ exitCode \in { Some(0), Some(1) }
          /\ exitCode = Some(0)
             <=> \E i \in DOMAIN commands :
                    IsExecute(commands[i]) /\ commands[i].ok
          /\ exitCode = Some(1) <=> stderr # << >>
    /\ \A i \in DOMAIN commands :
          (IsGenerate(commands[i]) /\ ~commands[i].ok)
          => /\ exitCode = Some(1)
             /\ Executes = << >>

C14_Witness ==
    /\ pc = "exited"
    /\ exitCode = Some(1)
    /\ Len(commands) = 2
    /\ IsGenerate(commands[1]) /\ commands[1].ok
    /\ IsExecute(commands[2]) /\ ~commands[2].ok

\* C15: parseJsonc of a valid .jsonc text yields the document that
\* JSON.parse yields for the same text without its comments and trailing
\* commas; //, /* and ,} inside a string literal stay string content.
C15_JsoncEqualsPlainJson ==
    pc = "parsed" => document = JsonParse(plain)

\* C16: when the binding list of the chosen scope has length 1, the
\* database prompt is never invoked and the selected database is that one
\* binding, whether or not it has an identifier.
C16_SingleDatabaseAutoSelected ==
    (databases # None /\ Len(Get(databases)) = 1)
    => /\ \A j \in DOMAIN prompts : prompts[j].prompt # "database"
       /\ selectedDatabase = Some(Get(databases)[1])

C16_Witness ==
    /\ databases # None
    /\ Len(Get(databases)) = 1
    /\ Get(databases)[1].database_id = Undef
    /\ selectedDatabase = Some(Get(databases)[1])
    /\ state = "Done"

\* C17: when the migrations directory holds at least one .sql file, every
\* execute invocation comes after a migration prompt at which the user
\* picked a file, also when there is exactly one file, and the path after
\* --file is the path of the picked file.
C17_MigrationChosenByUser ==
    \A k \in DOMAIN commands :
        ( /\ IsExecute(commands[k])
          /\ migrationsDir # None
          /\ Len(SqlFiles(Get(migrationsDir))) >= 1 )
        => \E j \in DOMAIN prompts :
             LET args == commands[k].args IN
             /\ prompts[j].prompt = "migration"
             /\ prompts[j].issued < k
             /\ prompts[j].answer.kind = "pick"
             /\ Len(prompts[j].options) = Len(SqlFiles(Get(migrationsDir)))
             /\ Len(args) >= 2
             /\ args[Len(args) - 1] = "--file"
             /\ args[Len(args)]
                  = sqlFilesWithStats[prompts[j].answer.index].path

C17_Witness ==
    /\ state = "Done"
    /\ Executes # << >>
    /\ Len(SqlFiles(Get(migrationsDir))) = 1
    /\ Len(Get(migrationsDir)) = 2
    /\ Last(prompts).prompt = "migration"
    /\ Last(prompts).answer = Pick(1)
    /\ Last(Last(commands).args) = "/cwd/drizzle/0000_init.sql"

StateOrder ==
    << "ResolvingConfig", "ResolvingTarget", "ResolvingMigrations",
       "Executing", "Done" >>

Terminal == { "Done", "Cancelled" }

Generates == SelectSeq(commands, IsGenerate)

\* C18: the states are visited in the order ResolvingConfig,
\* ResolvingTarget, ResolvingMigrations, Executing, Done: a step that
\* changes the state advances it by one or goes to Cancelled, and a
\* terminal state is never left; execute is invoked at most once and only
\* in Executing, generate at most once and before execute.
C18_LinearOrchestration ==
    [][ /\ state' # state
           => /\ state \notin Terminal
              /\ \/ state' = "Cancelled"
                 \/ IndexOf(state', StateOrder)
                      = IndexOf(state, StateOrder) + 1
        /\ commands' # commands
           => /\ Len(commands') = Len(commands) + 1
              /\ SubSeq(commands', 1, Len(commands)) = commands
              /\ IsExecute(Last(commands'))
                 => state = "Executing" /\ Executes = << >>
              /\ IsGenerate(Last(commands'))
                 => Generates = << >> /\ Executes = << >>
      ]_vars

C18_Witness ==
    /\ state = "Done"
    /\ cancelledFrom = "none"
    /\ Len(Generates) = 1
    /\ Len(Executes) = 1
    /\ IsGenerate(commands[1])

\* the bindings the parsed deployment config holds for the environment
\* `name`, None when it holds none
BindingsOf(name) ==
    LET config == Get(wranglerConfig) IN
    IF config.env = None THEN None
    ELSE LET env == Get(config.env) IN
         IF \E i \in DOMAIN env : env[i].key = name
         THEN env[CHOOSE i \in DOMAIN env : env[i].key = name].d1_databases
         ELSE None

C19_WitnessTopLevel ==
    /\ state = "Done"
    /\ selectedEnvironment = ""
    /\ environments = << "" >>
    /\ ~Has(Last(commands).args, "--env")
    /\ Last(commands).args[4] = "logs"

\* C20: every execute invocation carries "--file" followed by the path of
\* a .sql file listed in the migrations directory; with no .sql file in the
\* directory no execute invocation has "--file" as its last argument.
C20_FileArgumentIsListedArtifact ==
    \A k \in DOMAIN commands :
        IsExecute(commands[k])
        => LET args == commands[k].args IN
           \E i \in 1..(Len(args) - 1) :
               /\ args[i] = "--file"
               /\ \E f \in DOMAIN Get(migrationsDir) :
                    /\ EndsWith(Get(migrationsDir)[f].name, ".sql")
                    /\ args[i + 1]
                         = Join(Join(resolvedWorkdir, OutFolder),
                                Get(migrationsDir)[f].name)

====
